---- MODULE Spec2Model ----
(***************************************************************************)
(* Signal detection engine of Hyper-Alpha-Arena                            *)
(* (backend/services/signal_detection_service.py).                         *)
(*                                                                         *)
(* SignalDetectionService is a process-wide singleton.  Its state is the   *)
(* edge-trigger state store (signal_states), the configuration cache       *)
(* (_signal_pools_cache, _signals_cache, _cache_time) and, per caller of   *)
(* detect_signals, the locals of the call.  The collaborators (the         *)
(* configuration store, the indicator store, the trigger sink, the clock)  *)
(* are the environment: their answers are drawn from small sets.           *)
(***************************************************************************)
EXTENDS Integers, Sequences, FiniteSets, TLC

(***************************************************************************)
(* Bounds of the model.                                                    *)
(***************************************************************************)
\* Number of rising edges counted per (signal, symbol) pair before new calls stop.
MaxEdges == 2
\* Number of clock advances of a run.
MaxTicks == 1
\* Number of clock advances of a run that studies the cache.
MaxCacheTicks == 3
\* Largest time window (seconds) given to the period bucketer.
MaxWindow == 7300
\* Largest magnitude of the values and thresholds given to the operator evaluator.
MaxValue == 3

(***************************************************************************)
(* Program constants.                                                      *)
(***************************************************************************)
\* self._cache_ttl
CacheTTL == 60
\* condition.get("time_window", 60)
DefaultTimeWindow == 60

(***************************************************************************)
(* Python values that reach the engine from JSON payloads and columns:     *)
(* None, a number, a string that float() cannot parse, or a non-empty      *)
(* string that float() parses to a number.                                 *)
(***************************************************************************)
PyNone == [k |-> "none", v |-> 0]
PyStr == [k |-> "str", v |-> 0]
Num(n) == [k |-> "num", v |-> n]
NumStr(n) == [k |-> "numstr", v |-> n]

\* Python truthiness of such a value: None and 0 are falsy, a non-empty string
\* (also "0") is truthy.
Truthy(x) == CASE x.k = "none" -> FALSE
               [] x.k = "num" -> x.v # 0
               [] OTHER -> TRUE

Abs(n) == IF n < 0 THEN -n ELSE n

Threads == {1, 2}
MainThread == 1
SignalIds == {1, 2}
Symbols == {"BTC", "ETH"}
Keys == SignalIds \X Symbols

(***************************************************************************)
(* _evaluate_condition.  Values and thresholds are integers here, so the   *)
(* 1e-9 tolerance of == and != is exact equality.                          *)
(***************************************************************************)
KnownOperators == {">", ">=", "<", "<=", "==", "!=",
                   "abs_greater_than", "abs_gt", "abs_less_than", "abs_lt"}

\* Mutant: ">=" evaluated as ">".
evaluate_condition_gte_strict(value, operator, threshold) ==
  CASE operator \in {">", ">="} -> value > threshold
    [] operator = "<" -> value < threshold
    [] operator = "<=" -> value <= threshold
    [] operator = "==" -> Abs(value - threshold) < 1
    [] operator = "!=" -> Abs(value - threshold) >= 1
    [] operator \in {"abs_greater_than", "abs_gt"} -> Abs(value) > threshold
    [] operator \in {"abs_less_than", "abs_lt"} -> Abs(value) < threshold
    [] OTHER -> FALSE

evaluate_condition(value, operator, threshold) ==
  CASE operator = ">" -> value > threshold
    [] operator = ">=" -> value >= threshold
    [] operator = "<" -> value < threshold
    [] operator = "<=" -> value <= threshold
    [] operator = "==" -> Abs(value - threshold) < 1
    [] operator = "!=" -> Abs(value - threshold) >= 1
    [] operator \in {"abs_greater_than", "abs_gt"} -> Abs(value) > threshold
    [] operator \in {"abs_less_than", "abs_lt"} -> Abs(value) < threshold
    [] OTHER -> FALSE

\* A comparison or subtraction of a float with a str threshold raises TypeError;
\* an unknown operator never touches the threshold.
evaluate_raises(operator, threshold) ==
  operator \in KnownOperators /\ threshold.k # "num"

(***************************************************************************)
(* _time_window_to_period.  Its argument is a duration in seconds or a     *)
(* string (a period label): Seconds(n) or Label(s).                        *)
(***************************************************************************)
Seconds(n) == [k |-> "num", v |-> n, s |-> ""]
Label(s) == [k |-> "str", v |-> 0, s |-> s]

\* Mutant: the upper bounds taken as exclusive.
time_window_to_period_exclusive(time_window) ==
  IF time_window.k = "str" THEN time_window.s
  ELSE IF time_window.v < 60 THEN "1m"
  ELSE IF time_window.v < 180 THEN "3m"
  ELSE IF time_window.v < 300 THEN "5m"
  ELSE IF time_window.v < 900 THEN "15m"
  ELSE IF time_window.v < 1800 THEN "30m"
  ELSE IF time_window.v < 3600 THEN "1h"
  ELSE IF time_window.v < 7200 THEN "2h"
  ELSE "4h"

time_window_to_period(time_window) ==
  IF time_window.k = "str" THEN time_window.s
  ELSE IF time_window.v <= 60 THEN "1m"
  ELSE IF time_window.v <= 180 THEN "3m"
  ELSE IF time_window.v <= 300 THEN "5m"
  ELSE IF time_window.v <= 900 THEN "15m"
  ELSE IF time_window.v <= 1800 THEN "30m"
  ELSE IF time_window.v <= 3600 THEN "1h"
  ELSE IF time_window.v <= 7200 THEN "2h"
  ELSE "4h"

(***************************************************************************)
(* _get_oi / _get_funding_rate: "float(x) if x else None".  The result is  *)
(* a number, None, or the ValueError float() raises on an unparseable      *)
(* string (kind "err"), which _get_metric_value turns into None.           *)
(***************************************************************************)
PyErr == [k |-> "err", v |-> 0]

float_if_truthy(x) ==
  IF ~Truthy(x) THEN PyNone
  ELSE IF x.k \in {"num", "numstr"} THEN Num(x.v)
  ELSE PyErr

get_oi(market_data) == float_if_truthy(market_data.openInterest)

get_funding_rate(market_data) == float_if_truthy(market_data.funding)

IndicatorMetrics == {"oi_delta_percent", "cvd", "depth_ratio",
                     "order_imbalance", "taker_buy_ratio"}

indicator_map(metric) ==
  CASE metric = "oi_delta_percent" -> "OI_DELTA"
    [] metric = "cvd" -> "CVD"
    [] metric = "depth_ratio" -> "DEPTH"
    [] metric = "order_imbalance" -> "IMBALANCE"
    [] OTHER -> "TAKER"

\* Mutant: an absent value is taken as 0.
get_metric_value_or_zero(metric, market_data, time_window, resp) ==
  LET raw == IF metric = "oi" THEN get_oi(market_data)
             ELSE IF metric = "funding_rate" THEN get_funding_rate(market_data)
             ELSE IF metric \notin IndicatorMetrics THEN PyNone
             ELSE resp
  IN IF raw.k \in {"err", "none"} THEN Num(0) ELSE raw

(***************************************************************************)
(* _get_metric_value.  resp is the answer of the indicator store           *)
(* (get_indicator_value): a number, None, or an exception (PyErr).  Every  *)
(* exception raised inside is caught and becomes None.  The period         *)
(* _time_window_to_period derives from time_window only selects what the   *)
(* indicator store is asked; its answer is the environment's.              *)
(***************************************************************************)
get_metric_value(metric, market_data, time_window, resp) ==
  LET raw == IF metric = "oi" THEN get_oi(market_data)
             ELSE IF metric = "funding_rate" THEN get_funding_rate(market_data)
             ELSE IF metric \notin IndicatorMetrics THEN PyNone
             ELSE resp
  IN IF raw.k = "err" THEN PyNone ELSE raw

(***************************************************************************)
(* Rows of the configuration store.  A pool row is (id, signal_ids,        *)
(* symbols, enabled); a signal row is (id, trigger_condition, enabled).    *)
(* pool_name, signal_name and description are carried into the records     *)
(* unchanged and decide nothing; they are left out.  trigger_condition is  *)
(* a JSON column: a dict (isdict) whose metric / operator may be missing   *)
(* ("") and whose threshold may be missing (PyNone) or a string (PyStr),   *)
(* or NULL (isdict = FALSE).                                               *)
(***************************************************************************)
Cond(metric, operator, threshold, time_window) ==
  [isdict |-> TRUE, metric |-> metric, operator |-> operator,
   threshold |-> threshold, time_window |-> time_window]

NullCond == [isdict |-> FALSE, metric |-> "", operator |-> "",
             threshold |-> PyNone, time_window |-> DefaultTimeWindow]

Pool(id, signal_ids, symbols, enabled) ==
  [id |-> id, signal_ids |-> signal_ids, symbols |-> symbols, enabled |-> enabled]

Signal(id, cond, enabled) == [id |-> id, trigger_condition |-> cond, enabled |-> enabled]

OiAbove2 == Cond("oi", ">", Num(2), DefaultTimeWindow)

\* The contents the configuration store takes in the model.
ConfigIds == {"empty", "base", "wide", "loose", "nullcond", "strthreshold",
              "nothreshold", "partial", "paused", "off"}

StoreContent(c) ==
  CASE c = "empty" -> [pools |-> {}, signals |-> {}]
    [] c = "base" ->
         [pools |-> {Pool(1, {1}, {"BTC"}, TRUE)},
          signals |-> {Signal(1, OiAbove2, TRUE)}]
    [] c = "wide" ->
         [pools |-> {Pool(1, {1, 2}, {"BTC"}, TRUE), Pool(2, {1}, {"BTC", "ETH"}, TRUE)},
          signals |-> {Signal(1, OiAbove2, TRUE),
                       Signal(2, Cond("cvd", "abs_gt", Num(2), 120), TRUE)}]
    [] c = "loose" ->
         [pools |-> {Pool(1, {1}, {"BTC"}, TRUE)},
          signals |-> {Signal(1, Cond("oi", ">=", Num(1), DefaultTimeWindow), TRUE)}]
    [] c = "nullcond" ->
         [pools |-> {Pool(1, {1, 2}, {"BTC"}, TRUE)},
          signals |-> {Signal(1, NullCond, TRUE), Signal(2, OiAbove2, TRUE)}]
    [] c = "strthreshold" ->
         [pools |-> {Pool(1, {1, 2}, {"BTC"}, TRUE)},
          signals |-> {Signal(1, OiAbove2, TRUE),
                       Signal(2, Cond("oi", ">", PyStr, DefaultTimeWindow), TRUE)}]
    [] c = "nothreshold" ->
         [pools |-> {Pool(1, {1, 2}, {"BTC"}, TRUE)},
          signals |-> {Signal(1, Cond("oi", ">", PyNone, DefaultTimeWindow), TRUE),
                       Signal(2, OiAbove2, TRUE)}]
    [] c = "partial" ->
         [pools |-> {Pool(1, {1, 2}, {"BTC"}, TRUE)},
          signals |-> {Signal(1, Cond("volume", ">", Num(2), DefaultTimeWindow), TRUE),
                       Signal(2, OiAbove2, FALSE)}]
    [] c = "paused" ->
         [pools |-> {Pool(1, {1, 2}, {"BTC"}, TRUE)},
          signals |-> {Signal(1, OiAbove2, FALSE), Signal(2, OiAbove2, TRUE)}]
    [] OTHER ->
         [pools |-> {Pool(1, {1}, {"BTC"}, FALSE), Pool(2, {1, 2}, {"ETH"}, TRUE)},
          signals |-> {Signal(1, OiAbove2, FALSE), Signal(2, OiAbove2, TRUE)}]

\* SELECT ... FROM signal_pools WHERE enabled = true, as the list the cache keeps.
list_enabled_pools(c) == {p \in StoreContent(c).pools : p.enabled}

\* SELECT ... FROM signal_definitions WHERE enabled = true, as the dict keyed by id.
list_enabled_signals(c) ==
  LET rows == {s \in StoreContent(c).signals : s.enabled}
  IN [id \in {s.id : s \in rows} |-> CHOOSE s \in rows : s.id = id]

\* The answers of the indicator store.
IndicatorResponses == {PyNone, Num(-3), Num(1), PyErr}

(***************************************************************************)
(* State.                                                                  *)
(***************************************************************************)
VARIABLES
  signal_states,       \* self.signal_states: (signal_id, symbol) -> SignalState
  signal_pools_cache,  \* self._signal_pools_cache
  signals_cache,       \* self._signals_cache
  cache_time,          \* self._cache_time
  store,               \* the content of the configuration store
  clock,               \* time.time()
  ticks,               \* clock advances so far
  pc,                  \* per caller: the place of its detect_signals call
  frame,               \* per caller: the locals of its call
  orphan,              \* SignalState objects a caller still holds after the dict dropped them
  obs,                 \* per caller: what the call observed and did (history)
  prev_cond,           \* per pair: condition outcome of its latest evaluation since reset
  edges,               \* per pair: rising edges in its sequence of condition outcomes
  emitted,             \* per pair: TriggerRecords appended to a result list
  history,             \* history: the previous cache access, the fetch times, the call's start
  fn                   \* a call of one of the engine's pure helpers: its arguments and result

vars == <<signal_states, signal_pools_cache, signals_cache, cache_time, store, clock,
          ticks, pc, frame, orphan, obs, prev_cond, edges, emitted, history, fn>>

cacheVars == <<signal_pools_cache, signals_cache, cache_time>>
envVars == <<store, clock, ticks, fn>>
edgeVars == <<prev_cond, edges, emitted>>
histVars == <<prev_cond, edges, emitted, history>>

\* SignalState(signal_id, symbol): is_active = False, last_value = None, last_check_time = 0
SignalState == [is_active |-> FALSE, last_value |-> PyNone, last_check_time |-> 0]

NoDef == Signal(0, NullCond, FALSE)
NoUpdate == [openInterest |-> PyNone, funding |-> PyNone]
NoRecord == [signal_id |-> 0, symbol |-> "", trigger_value |-> 0, threshold |-> 0,
             operator |-> "", metric |-> ""]

\* The locals of a detect_signals call (and of the calls it makes) when it starts.
Frame(symbol, market_data) ==
  [symbol |-> symbol, market_data |-> market_data, now |-> 0,
   signal_ids |-> {}, triggered_signals |-> <<>>,
   signal_id |-> 0, signal_def |-> NoDef, current_value |-> 0,
   condition_met |-> FALSE, state |-> "none", slot |-> 0, should_trigger |-> FALSE,
   trigger_result |-> NoRecord, outcome |-> "none"]

IdleFrame == Frame("", NoUpdate)

\* What a call has observed so far.
Obs ==
  [refresh |-> "none", pre_pools |-> {}, pre_signals |-> <<>>, pre_time |-> 0,
   pools_seen |-> {}, defs_seen |-> <<>>, read_defs |-> FALSE,
   candidates |-> {}, misses |-> {}, evals |-> {}, produced |-> {},
   sink_failed |-> FALSE,
   abort |-> "none"]

\* History: the access time and the refresh outcome of the previous
\* detect_signals call (at = -1: none yet), the times the cached pools and the
\* cached definitions were fetched, the access time of the latest successful
\* refresh if it fetched nothing (else -1), and signal_states as it was when the
\* current call began; the pairs that were active when a call for their symbol
\* passed them over because the cache named no enabled pool or no enabled
\* definition for them (passed, until their next evaluation or reset), the
\* condition each pair was last evaluated on (cond_at), and the signals the
\* current call evaluated to true on a pair carried over from such a gap or
\* from another threshold or operator (carried); how often a record of each
\* pair was handed to the trigger sink (handed), and the pairs whose latest
\* record the sink failed to store and whose condition has not been false, nor
\* their state reset, since (unsaved).  It is kept only in the specifications
\* that study the cache, the frame of a call or the sink; elsewhere it stays
\* Untracked.
Untracked == [tracked |-> FALSE, at |-> -1, refresh |-> "none", pools_at |-> -1,
              defs_at |-> -1, empty_at |-> -1, pre_states |-> <<>>,
              passed |-> {}, cond_at |-> [k \in Keys |-> NullCond], carried |-> {},
              handed |-> [k \in Keys |-> 0], unsaved |-> {}]
Tracked == [Untracked EXCEPT !.tracked = TRUE]

Log(entry) == IF history.tracked THEN entry ELSE history

\* No helper call is under study.
NoCall == [name |-> "none"]

\* The state after __init__.  time.time() counts seconds since the epoch, so the
\* clock starts at least _cache_ttl past _cache_time = 0.
Constructed ==
  /\ signal_states = <<>>
  /\ signal_pools_cache = {}
  /\ signals_cache = <<>>
  /\ cache_time = 0
  /\ store \in ConfigIds
  /\ clock = CacheTTL
  /\ ticks = 0
  /\ pc = [t \in Threads |-> "idle"]
  /\ frame = [t \in Threads |-> IdleFrame]
  /\ orphan = [t \in Threads |-> SignalState]
  /\ obs = [t \in Threads |-> Obs]
  /\ prev_cond = [k \in Keys |-> FALSE]
  /\ edges = [k \in Keys |-> 0]
  /\ emitted = [k \in Keys |-> 0]

Init == Constructed /\ history = Untracked /\ fn = NoCall

(***************************************************************************)
(* Helpers on dicts and on the SignalState objects callers hold.           *)
(***************************************************************************)
Put(d, k, v) == [x \in DOMAIN d \cup {k} |-> IF x = k THEN v ELSE d[x]]

Remove(d, K) == [x \in DOMAIN d \ K |-> d[x]]

Min(S) == CHOOSE x \in S : \A y \in S : x <= y

\* state_key = (signal_id, symbol)
state_key(t) == <<frame[t].signal_id, frame[t].symbol>>

\* The callers whose local "state" is the object the dict holds under key k.
Holders(fr, k) ==
  {u \in Threads : fr[u].state = "dict" /\ <<fr[u].signal_id, fr[u].symbol>> = k}

UsedSlots(fr) == {fr[u].slot : u \in {v \in Threads : fr[v].state = "orphan"}}

\* The dict drops the objects under the keys K (del, clear, or an overwrite): a
\* caller that holds one keeps it, now unreachable from the dict.
RECURSIVE DropKeys(_, _, _)
DropKeys(K, fr, orp) ==
  IF K = {} THEN [frame |-> fr, orphan |-> orp]
  ELSE LET k == CHOOSE x \in K : TRUE
           hs == Holders(fr, k)
       IN IF hs = {} THEN DropKeys(K \ {k}, fr, orp)
          ELSE LET s == Min(Threads \ UsedSlots(fr))
               IN DropKeys(K \ {k},
                           [u \in Threads |->
                              IF u \in hs
                              THEN [fr[u] EXCEPT !.state = "orphan", !.slot = s]
                              ELSE fr[u]],
                           [orp EXCEPT ![s] = signal_states[k]])

\* Objects no caller holds any more are garbage.
Sweep(fr, orp) == [s \in Threads |-> IF s \in UsedSlots(fr) THEN orp[s] ELSE SignalState]

\* The locals of _check_signal_trigger die when it returns or raises.
LeaveCheck(f) ==
  [f EXCEPT !.signal_id = 0, !.signal_def = NoDef, !.current_value = 0,
            !.condition_met = FALSE, !.state = "none", !.slot = 0,
            !.should_trigger = FALSE, !.trigger_result = NoRecord]

\* Mutant: detect_signals without its except clause.
detect_signals_reraise == "raised"

(***************************************************************************)
(* detect_signals: the except clause around the whole body logs the error  *)
(* and falls through to "return triggered_signals".                        *)
(***************************************************************************)
detect_signals_except == "returned"

\* An exception raised in the body of detect_signals' try, at the step `cause`.
Raise(t, cause) ==
  /\ pc' = [pc EXCEPT ![t] = "done"]
  /\ frame' = [frame EXCEPT ![t] = [LeaveCheck(@) EXCEPT !.outcome = detect_signals_except]]
  /\ orphan' = Sweep(frame', orphan)
  /\ obs' = [obs EXCEPT ![t].abort = cause]

(***************************************************************************)
(* detect_signals(symbol, market_data): entry.                             *)
(***************************************************************************)
Call(t, symbol, market_data) ==
  /\ pc[t] = "idle"
  /\ \A k \in Keys : edges[k] < MaxEdges
  /\ pc' = [pc EXCEPT ![t] = "refresh"]
  /\ frame' = [frame EXCEPT ![t] = Frame(symbol, market_data)]
  /\ obs' = [obs EXCEPT ![t] = Obs]
  /\ history' = Log([history EXCEPT !.pre_states = signal_states, !.carried = {}])
  /\ UNCHANGED <<signal_states, cacheVars, envVars, orphan, edgeVars>>

(***************************************************************************)
(* _refresh_cache_if_needed                                                *)
(***************************************************************************)
\* Mutant: the cache expires only after more than the ttl.
cache_expired_strict(now) == now - cache_time > CacheTTL

\* if now - self._cache_time < self._cache_ttl: return
cache_expired(now) == ~(now - cache_time < CacheTTL)

CheckTTL(t) ==
  /\ pc[t] = "refresh"
  /\ frame' = [frame EXCEPT ![t].now = clock]
  /\ IF cache_expired(clock)
     THEN /\ pc' = [pc EXCEPT ![t] = "q_pools"]
          /\ obs' = [obs EXCEPT ![t].refresh = "started",
                                ![t].pre_pools = signal_pools_cache,
                                ![t].pre_signals = signals_cache,
                                ![t].pre_time = cache_time]
     ELSE /\ pc' = [pc EXCEPT ![t] = "pools"]
          /\ obs' = obs
  /\ UNCHANGED <<signal_states, cacheVars, envVars, orphan, histVars>>

\* Mutant: the timestamp advances although the refresh failed.
failed_refresh_cache_time_advanced(now) == now

\* A query that raises skips line 140: the timestamp stays.
failed_refresh_cache_time(now) == cache_time

\* The except clause of _refresh_cache_if_needed logs and returns.
RefreshFailed(t) ==
  /\ pc' = [pc EXCEPT ![t] = "pools"]
  /\ obs' = [obs EXCEPT ![t].refresh = "failed"]
  /\ cache_time' = failed_refresh_cache_time(frame[t].now)

\* Lines 111-123: the pools query answers and the pools cache is assigned.
QueryPoolsOk(t) ==
  /\ pc[t] = "q_pools"
  /\ signal_pools_cache' = list_enabled_pools(store)
  /\ pc' = [pc EXCEPT ![t] = "q_signals"]
  /\ history' = Log([history EXCEPT !.pools_at = clock, !.empty_at = -1])
  /\ UNCHANGED <<signal_states, signals_cache, cache_time, envVars, frame, orphan,
                 obs, edgeVars>>

\* SessionLocal() or the pools query raises.
QueryPoolsFail(t) ==
  /\ pc[t] = "q_pools"
  /\ RefreshFailed(t)
  /\ UNCHANGED <<signal_states, signal_pools_cache, signals_cache, envVars, frame,
                 orphan, histVars>>

\* Lines 126-138: the definitions query answers and the signals cache is assigned.
QuerySignalsOk(t) ==
  /\ pc[t] = "q_signals"
  /\ signals_cache' = list_enabled_signals(store)
  /\ pc' = [pc EXCEPT ![t] = "set_time"]
  /\ history' = Log([history EXCEPT !.defs_at = clock])
  /\ UNCHANGED <<signal_states, signal_pools_cache, cache_time, envVars, frame,
                 orphan, obs, edgeVars>>

\* The definitions query raises, after the pools cache was assigned.
QuerySignalsFail(t) ==
  /\ pc[t] = "q_signals"
  /\ RefreshFailed(t)
  /\ UNCHANGED <<signal_states, signal_pools_cache, signals_cache, envVars, frame,
                 orphan, histVars>>

\* Mutant: the timestamp advances only when the refresh fetched some pool.
refreshed_cache_time_nonempty(now) == IF signal_pools_cache = {} THEN cache_time ELSE now

\* Line 140: self._cache_time = now, whatever was fetched.
refreshed_cache_time(now) == now

SetCacheTime(t) ==
  /\ pc[t] = "set_time"
  /\ cache_time' = refreshed_cache_time(frame[t].now)
  /\ pc' = [pc EXCEPT ![t] = "pools"]
  /\ obs' = [obs EXCEPT ![t].refresh = "ok"]
  /\ history' = Log([history EXCEPT !.empty_at =
                         IF signal_pools_cache = {} /\ signals_cache = <<>>
                         THEN frame[t].now ELSE -1])
  /\ UNCHANGED <<signal_states, signal_pools_cache, signals_cache, envVars, frame,
                 orphan, edgeVars>>

(***************************************************************************)
(* detect_signals, lines 68-92: the relevant pools, the candidate ids and  *)
(* the loop over them.                                                     *)
(***************************************************************************)
\* Mutant: the pools are not filtered by symbol.
relevant_pools_any_symbol(pools, symbol) == {p \in pools : p.enabled}

relevant_pools(pools, symbol) == {p \in pools : p.enabled /\ symbol \in p.symbols}

\* The pairs of a symbol, among the signals ids, that are recorded as active.
ActivePairs(ids, symbol) ==
  {k \in DOMAIN signal_states : k[1] \in ids /\ k[2] = symbol /\ signal_states[k].is_active}

\* The history notes the active pairs of the symbol that no monitoring pool names.
ReadPools(t) ==
  /\ pc[t] = "pools"
  /\ LET relevant == relevant_pools(signal_pools_cache, frame[t].symbol)
         ids == UNION {p.signal_ids : p \in relevant}
     IN /\ IF relevant = {}
           THEN /\ pc' = [pc EXCEPT ![t] = "done"]
                /\ frame' = [frame EXCEPT ![t].outcome = "returned"]
                /\ obs' = [obs EXCEPT ![t].pools_seen = signal_pools_cache]
           ELSE /\ pc' = [pc EXCEPT ![t] = "loop"]
                /\ frame' = [frame EXCEPT ![t].signal_ids = ids]
                /\ obs' = [obs EXCEPT ![t].pools_seen = signal_pools_cache,
                                      ![t].candidates = ids]
        /\ history' = Log([history EXCEPT !.passed =
                               @ \cup ActivePairs(SignalIds \ ids, frame[t].symbol)])
  /\ UNCHANGED <<signal_states, cacheVars, envVars, orphan, edgeVars>>

\* One iteration of "for signal_id in signal_ids": the set's iteration order is
\* the interpreter's, so any remaining id may come next.  The history notes an
\* active pair whose definition is not in the cache or is disabled.
NextSignal(t, signal_id) ==
  /\ pc[t] = "loop"
  /\ signal_id \in frame[t].signal_ids
  /\ obs' = [obs EXCEPT ![t].defs_seen = signals_cache, ![t].read_defs = TRUE]
  /\ IF signal_id \in DOMAIN signals_cache /\ signals_cache[signal_id].enabled
     THEN /\ pc' = [pc EXCEPT ![t] = "check"]
          /\ frame' = [frame EXCEPT ![t].signal_ids = @ \ {signal_id},
                                    ![t].signal_id = signal_id,
                                    ![t].signal_def = signals_cache[signal_id]]
          /\ history' = history
     ELSE /\ pc' = pc
          /\ frame' = [frame EXCEPT ![t].signal_ids = @ \ {signal_id}]
          /\ history' = Log([history EXCEPT !.passed =
                                 @ \cup ActivePairs({signal_id}, frame[t].symbol)])
  /\ UNCHANGED <<signal_states, cacheVars, envVars, orphan, edgeVars>>

\* The loop is exhausted: return triggered_signals.
LoopEnd(t) ==
  /\ pc[t] = "loop"
  /\ frame[t].signal_ids = {}
  /\ pc' = [pc EXCEPT ![t] = "done"]
  /\ frame' = [frame EXCEPT ![t].outcome = "returned"]
  /\ UNCHANGED <<signal_states, cacheVars, envVars, orphan, obs, histVars>>

\* The caller takes the result (or the exception); the call's locals are gone.
Return(t) ==
  /\ pc[t] = "done"
  /\ pc' = [pc EXCEPT ![t] = "idle"]
  /\ frame' = [frame EXCEPT ![t] = IdleFrame]
  /\ obs' = [obs EXCEPT ![t] = Obs]
  /\ history' = Log([history EXCEPT !.at = frame[t].now, !.refresh = obs[t].refresh])
  /\ UNCHANGED <<signal_states, cacheVars, envVars, orphan, edgeVars>>

(***************************************************************************)
(* _check_signal_trigger                                                   *)
(***************************************************************************)
\* not all([metric, operator, threshold is not None])
fields_missing(condition) ==
  condition.metric = "" \/ condition.operator = "" \/ condition.threshold.k = "none"

\* Lines 156-163: condition.get(...) raises AttributeError when trigger_condition
\* is not a dict; a missing field returns None.
CheckCondition(t) ==
  /\ pc[t] = "check"
  /\ LET condition == frame[t].signal_def.trigger_condition
     IN IF ~condition.isdict
        THEN Raise(t, "condition")
        ELSE IF fields_missing(condition)
        THEN /\ pc' = [pc EXCEPT ![t] = "loop"]
             /\ frame' = [frame EXCEPT ![t] = LeaveCheck(@)]
             /\ UNCHANGED <<orphan, obs>>
        ELSE /\ pc' = [pc EXCEPT ![t] = "metric"]
             /\ UNCHANGED <<frame, orphan, obs>>
  /\ UNCHANGED <<signal_states, cacheVars, envVars, histVars>>

\* Lines 166-168: resp is what the indicator store answers if it is asked.  The
\* history notes the signals for which it had no value or failed.
ResolveMetric(t, resp) ==
  /\ pc[t] = "metric"
  /\ LET condition == frame[t].signal_def.trigger_condition
         value == get_metric_value(condition.metric, frame[t].market_data,
                                   condition.time_window, resp)
     IN /\ IF value.k = "none"
           THEN /\ pc' = [pc EXCEPT ![t] = "loop"]
                /\ frame' = [frame EXCEPT ![t] = LeaveCheck(@)]
           ELSE /\ pc' = [pc EXCEPT ![t] = "evaluate"]
                /\ frame' = [frame EXCEPT ![t].current_value = value.v]
        /\ obs' = IF condition.metric \in IndicatorMetrics /\ resp.k \in {"none", "err"}
                  THEN [obs EXCEPT ![t].misses = @ \cup {frame[t].signal_id}]
                  ELSE obs
  /\ UNCHANGED <<signal_states, cacheVars, envVars, orphan, histVars>>

is_active_of(k) == IF k \in DOMAIN signal_states THEN signal_states[k].is_active ELSE FALSE

\* The condition differs in threshold or operator from the one the pair was last
\* evaluated on.
Redefined(k, condition) ==
  \/ history.cond_at[k].threshold # condition.threshold
  \/ history.cond_at[k].operator # condition.operator

\* Line 171: the operator evaluation.  The history records the evaluation:
\* the pair's stored flag before it, the pair's previous outcome, the outcome and
\* the metric value it was evaluated on; and whether a true outcome falls on a
\* pair carried over: one passed over while active, or one recorded as active
\* whose threshold or operator differs from those of its last evaluation.
Evaluate(t) ==
  /\ pc[t] = "evaluate"
  /\ LET condition == frame[t].signal_def.trigger_condition
         k == state_key(t)
         met == evaluate_condition(frame[t].current_value, condition.operator,
                                   condition.threshold.v)
     IN IF evaluate_raises(condition.operator, condition.threshold)
        THEN /\ Raise(t, "evaluate")
             /\ UNCHANGED histVars
        ELSE /\ pc' = [pc EXCEPT ![t] = "st_check"]
             /\ frame' = [frame EXCEPT ![t].condition_met = met]
             /\ obs' = [obs EXCEPT ![t].evals = @ \cup
                          {[signal_id |-> k[1], prior |-> is_active_of(k),
                            prev |-> prev_cond[k], met |-> met,
                            value |-> frame[t].current_value]}]
             /\ prev_cond' = [prev_cond EXCEPT ![k] = met]
             /\ edges' = [edges EXCEPT ![k] = IF met /\ ~prev_cond[k] THEN @ + 1 ELSE @]
             /\ history' = Log([history EXCEPT
                    !.passed = @ \ {k},
                    !.unsaved = IF met THEN @ ELSE @ \ {k},
                    !.cond_at[k] = condition,
                    !.carried = IF met /\ (k \in history.passed \/
                                           (is_active_of(k) /\ Redefined(k, condition)))
                                THEN @ \cup {k[1]} ELSE @])
             /\ UNCHANGED <<orphan, emitted>>
  /\ UNCHANGED <<signal_states, cacheVars, envVars>>

(***************************************************************************)
(* Lines 173-187: get or create the pair's SignalState, decide, update.    *)
(* Each access of shared state is a step of its own; the three field       *)
(* writes of lines 185-187 are one step.                                   *)
(***************************************************************************)
\* Mutant: an entry last written before the latest refresh counts as missing.
state_missing_or_older(k) ==
  k \notin DOMAIN signal_states \/ signal_states[k].last_check_time < cache_time

\* state_key not in self.signal_states
state_missing(k) == k \notin DOMAIN signal_states

\* if state_key not in self.signal_states
StateCheck(t) ==
  /\ pc[t] = "st_check"
  /\ pc' = [pc EXCEPT ![t] = IF state_missing(state_key(t))
                             THEN "st_create" ELSE "st_fetch"]
  /\ UNCHANGED <<signal_states, cacheVars, envVars, frame, orphan, obs, histVars>>

\* self.signal_states[state_key] = SignalState(...)
StateCreate(t) ==
  /\ pc[t] = "st_create"
  /\ LET k == state_key(t)
         dropped == DropKeys({k} \cap DOMAIN signal_states, frame, orphan)
     IN /\ signal_states' = Put(signal_states, k, SignalState)
        /\ frame' = dropped.frame
        /\ orphan' = dropped.orphan
  /\ pc' = [pc EXCEPT ![t] = "st_fetch"]
  /\ UNCHANGED <<cacheVars, envVars, obs, histVars>>

\* state = self.signal_states[state_key]: KeyError when the key is gone.
StateFetch(t) ==
  /\ pc[t] = "st_fetch"
  /\ IF state_key(t) \in DOMAIN signal_states
     THEN /\ pc' = [pc EXCEPT ![t] = "st_read"]
          /\ frame' = [frame EXCEPT ![t].state = "dict"]
          /\ UNCHANGED <<orphan, obs>>
     ELSE Raise(t, "keyerror")
  /\ UNCHANGED <<signal_states, cacheVars, envVars, histVars>>

\* The object the caller's local "state" refers to.
StateOf(t) ==
  IF frame[t].state = "dict" THEN signal_states[state_key(t)] ELSE orphan[frame[t].slot]

\* Mutant: level-triggered, the stored flag is ignored.
should_trigger_level(condition_met, is_active) == condition_met

should_trigger(condition_met, is_active) == condition_met /\ ~is_active

\* should_trigger = condition_met and not state.is_active
StateRead(t) ==
  /\ pc[t] = "st_read"
  /\ frame' = [frame EXCEPT ![t].should_trigger =
                 should_trigger(frame[t].condition_met, StateOf(t).is_active)]
  /\ pc' = [pc EXCEPT ![t] = "st_write"]
  /\ UNCHANGED <<signal_states, cacheVars, envVars, orphan, obs, histVars>>

\* Mutant: the activation is never recorded.
new_is_active_never(condition_met, is_active) == FALSE

\* Mutant: the flag latches, a drop to false is never recorded.
new_is_active_latched(condition_met, is_active) == condition_met \/ is_active

\* state.is_active = condition_met
new_is_active(condition_met, is_active) == condition_met

\* Mutant: last_value is left as it was.
new_last_value_kept(current_value, last_value) == last_value

\* state.last_value = current_value
new_last_value(current_value, last_value) == Num(current_value)

\* Lines 185-200: the state is updated, and at a rising edge the record is built.
StateWrite(t) ==
  /\ pc[t] = "st_write"
  /\ LET f == frame[t]
         k == state_key(t)
         condition == f.signal_def.trigger_condition
         new == [is_active |-> new_is_active(f.condition_met, StateOf(t).is_active),
                 last_value |-> new_last_value(f.current_value, StateOf(t).last_value),
                 last_check_time |-> clock]
         record == [signal_id |-> f.signal_id, symbol |-> f.symbol,
                    trigger_value |-> f.current_value,
                    threshold |-> condition.threshold.v,
                    operator |-> condition.operator, metric |-> condition.metric]
         written == IF f.state = "dict" THEN orphan
                    ELSE [orphan EXCEPT ![f.slot] = new]
     IN /\ signal_states' = IF f.state = "dict"
                            THEN [signal_states EXCEPT ![k] = new]
                            ELSE signal_states
        /\ IF f.should_trigger
           THEN /\ pc' = [pc EXCEPT ![t] = "log"]
                /\ frame' = [frame EXCEPT ![t].state = "none", ![t].slot = 0,
                                          ![t].trigger_result = record]
                /\ obs' = [obs EXCEPT ![t].produced = @ \cup {record}]
           ELSE /\ pc' = [pc EXCEPT ![t] = "loop"]
                /\ frame' = [frame EXCEPT ![t] = LeaveCheck(@)]
                /\ obs' = obs
        /\ orphan' = Sweep(frame', written)
  /\ UNCHANGED <<cacheVars, envVars, histVars>>

(***************************************************************************)
(* _log_trigger and the append of line 92.                                 *)
(***************************************************************************)
\* _check_signal_trigger returns the record and detect_signals appends it.
AppendResult(t) ==
  /\ pc' = [pc EXCEPT ![t] = "loop"]
  /\ frame' = [frame EXCEPT ![t] =
                 [LeaveCheck(@) EXCEPT !.triggered_signals =
                    Append(@, frame[t].trigger_result)]]
  /\ emitted' = [emitted EXCEPT ![state_key(t)] = @ + 1]
  /\ UNCHANGED <<orphan, prev_cond, edges>>

\* The trigger sink records the row.
LogTriggerOk(t) ==
  /\ pc[t] = "log"
  /\ AppendResult(t)
  /\ obs' = obs
  /\ history' = Log([history EXCEPT !.handed[state_key(t)] = @ + 1,
                                      !.unsaved = @ \ {state_key(t)}])
  /\ UNCHANGED <<signal_states, cacheVars, envVars>>

\* Mutant: a sink failure takes the activation back, so that the edge is retried.
sink_failure_states_reverted(k) ==
  IF k \in DOMAIN signal_states
  THEN [signal_states EXCEPT ![k].is_active = FALSE]
  ELSE signal_states

\* Lines 340-341 log the failure; the state written at lines 185-187 stays.
sink_failure_states(k) == signal_states

\* Mutant: _log_trigger without its except clause.
log_trigger_no_except == "propagates"

\* The except clause of _log_trigger logs the failure and returns.
log_trigger_except == "contained"

\* The trigger sink fails (SessionLocal, execute, commit or close raises).
LogTriggerFail(t) ==
  /\ pc[t] = "log"
  /\ IF log_trigger_except = "contained"
     THEN /\ AppendResult(t)
          /\ obs' = [obs EXCEPT ![t].sink_failed = TRUE]
          /\ history' = Log([history EXCEPT !.handed[state_key(t)] = @ + 1,
                                              !.unsaved = @ \cup {state_key(t)}])
     ELSE /\ pc' = [pc EXCEPT ![t] = "done"]
          /\ frame' = [frame EXCEPT ![t] =
                         [LeaveCheck(@) EXCEPT !.outcome = detect_signals_except]]
          /\ obs' = [obs EXCEPT ![t].sink_failed = TRUE, ![t].abort = "sink"]
          /\ UNCHANGED <<orphan, histVars>>
  /\ signal_states' = sink_failure_states(state_key(t))
  /\ UNCHANGED <<cacheVars, envVars>>

(***************************************************************************)
(* reset_state(signal_id, symbol): an argument is {} for None, {x} for x.  *)
(***************************************************************************)
\* Mutant: the two filters joined by "or".
keys_to_remove_either(signal_id, symbol) ==
  IF signal_id = {} /\ symbol = {}
  THEN DOMAIN signal_states
  ELSE {k \in DOMAIN signal_states :
          (signal_id = {} \/ k[1] \in signal_id) \/ (symbol = {} \/ k[2] \in symbol)}

keys_to_remove(signal_id, symbol) ==
  IF signal_id = {} /\ symbol = {}
  THEN DOMAIN signal_states
  ELSE {k \in DOMAIN signal_states :
          (signal_id = {} \/ k[1] \in signal_id) /\ (symbol = {} \/ k[2] \in symbol)}

ResetState(signal_id, symbol) ==
  /\ LET gone == keys_to_remove(signal_id, symbol)
         dropped == DropKeys(gone, frame, orphan)
     IN /\ gone # {}
        /\ signal_states' = Remove(signal_states, gone)
        /\ frame' = dropped.frame
        /\ orphan' = dropped.orphan
        /\ prev_cond' = [k \in Keys |-> IF k \in gone THEN FALSE ELSE prev_cond[k]]
        /\ history' = Log([history EXCEPT !.passed = @ \ gone, !.unsaved = @ \ gone])
  /\ UNCHANGED <<cacheVars, envVars, pc, obs, edges, emitted>>

(***************************************************************************)
(* The environment: the clock advances, the configuration store changes.   *)
(***************************************************************************)
Advance(d, most) ==
  /\ ticks < most
  /\ clock' = clock + d
  /\ ticks' = ticks + 1
  /\ UNCHANGED <<signal_states, cacheVars, store, fn, pc, frame, orphan, obs, histVars>>

Tick(d) == Advance(d, MaxTicks)

ConfigChange(c) ==
  /\ c # store
  /\ store' = c
  /\ UNCHANGED <<signal_states, cacheVars, clock, ticks, fn, pc, frame, orphan, obs,
                 histVars>>

(***************************************************************************)
(* The steps of one caller.                                                *)
(***************************************************************************)
Refresh(t) ==
  \/ CheckTTL(t)
  \/ QueryPoolsOk(t)
  \/ QuerySignalsOk(t)
  \/ SetCacheTime(t)

RefreshFault(t) ==
  \/ QueryPoolsFail(t)
  \/ QuerySignalsFail(t)

Detect(t) ==
  \/ ReadPools(t)
  \/ \E signal_id \in SignalIds : NextSignal(t, signal_id)
  \/ LoopEnd(t)
  \/ Return(t)
  \/ CheckCondition(t)
  \/ \E resp \in IndicatorResponses : ResolveMetric(t, resp)
  \/ Evaluate(t)
  \/ StateCheck(t)
  \/ StateCreate(t)
  \/ StateFetch(t)
  \/ StateRead(t)
  \/ StateWrite(t)
  \/ LogTriggerOk(t)

Idle == \A t \in Threads : pc[t] = "idle"

ResetArgs(S) == {{}} \cup {{x} : x \in S}

(***************************************************************************)
(* Spec: a sequential run.  One caller; detect_signals and reset_state     *)
(* calls follow one another; the collaborators may fail; between calls the *)
(* clock advances and the configuration store changes.                     *)
(***************************************************************************)
SeqSymbols == {"BTC"}
\* The market updates a caller passes: asset_ctx.openInterest and asset_ctx.funding.
SeqUpdates == [openInterest : {PyNone, Num(1), Num(3)}, funding : {PyNone}]
SeqConfigs == {"wide", "nullcond", "strthreshold"}
SeqTicks == {CacheTTL}

InitSeq == Init /\ store \in SeqConfigs

Next ==
  \/ \E symbol \in SeqSymbols, market_data \in SeqUpdates :
       Call(MainThread, symbol, market_data)
  \/ Refresh(MainThread)
  \/ RefreshFault(MainThread)
  \/ Detect(MainThread)
  \/ LogTriggerFail(MainThread)
  \/ \E signal_id \in ResetArgs(SignalIds), symbol \in ResetArgs(SeqSymbols) :
       Idle /\ ResetState(signal_id, symbol)
  \/ \E d \in SeqTicks : Idle /\ Tick(d)
  \/ \E c \in SeqConfigs : Idle /\ ConfigChange(c)

Spec == InitSeq /\ [][Next]_vars

(***************************************************************************)
(* SpecConc: two callers run detect_signals concurrently, any interleaving *)
(* of their steps.  No collaborator fails, the clock stands still and the  *)
(* store changes only between refreshes, so whatever goes wrong here is    *)
(* the interleaving's doing.                                               *)
(***************************************************************************)
ConcSymbols == {"BTC"}
ConcUpdates == [openInterest : {Num(1), Num(3)}, funding : {PyNone}]
ConcConfigs == {"base", "off"}

InitConc == Init /\ store \in ConcConfigs

\* A refresh reads the store in one session: the store does not change between
\* the two queries of a refresh.
StoreQuiet == \A t \in Threads : pc[t] # "q_signals"

NextConc ==
  \/ \E t \in Threads, symbol \in ConcSymbols, market_data \in ConcUpdates :
       Call(t, symbol, market_data)
  \/ \E t \in Threads : Refresh(t)
  \/ \E t \in Threads : Detect(t)
  \/ \E c \in ConcConfigs : StoreQuiet /\ ConfigChange(c)

SpecConc == InitConc /\ [][NextConc]_vars

(***************************************************************************)
(* SpecCache: a sequential run that studies the configuration cache.  One  *)
(* caller; between calls the clock advances by less than the ttl, by the   *)
(* ttl, or by more in several steps, and the store changes; the queries of *)
(* a refresh may fail.  The history of the cache is kept.                  *)
(***************************************************************************)
CacheSymbols == {"BTC", "ETH"}
CacheUpdates == [openInterest : {Num(3)}, funding : {PyNone}]
CacheConfigs == {"empty", "base"}
CacheTicks == {1, CacheTTL - 1, CacheTTL}

InitCache == Constructed /\ store \in CacheConfigs /\ history = Tracked /\ fn = NoCall

NextCache ==
  \/ \E symbol \in CacheSymbols, market_data \in CacheUpdates :
       Call(MainThread, symbol, market_data)
  \/ Refresh(MainThread)
  \/ RefreshFault(MainThread)
  \/ Detect(MainThread)
  \/ \E d \in CacheTicks : Idle /\ Advance(d, MaxCacheTicks)
  \/ \E c \in CacheConfigs : Idle /\ ConfigChange(c)

SpecCache == InitCache /\ [][NextCache]_vars

(***************************************************************************)
(* SpecReset: one caller evaluates two symbols, so that several pairs have *)
(* state, and reset_state is called with every combination of arguments,   *)
(* between calls and (from another thread of the host) during a call.      *)
(***************************************************************************)
ResetSymbols == {"BTC", "ETH"}
ResetUpdates == [openInterest : {Num(1), Num(3)}, funding : {PyNone}]

InitReset == Init /\ store = "wide"

NextReset ==
  \/ \E symbol \in ResetSymbols, market_data \in ResetUpdates :
       Call(MainThread, symbol, market_data)
  \/ Refresh(MainThread)
  \/ Detect(MainThread)
  \/ \E signal_id \in ResetArgs(SignalIds), symbol \in ResetArgs(ResetSymbols) :
       Idle /\ ResetState(signal_id, symbol)

SpecReset == InitReset /\ [][NextReset]_vars

(***************************************************************************)
(* SpecSkip: a sequential run over stores whose definitions are skipped:   *)
(* a payload without the metric's field, an indicator store without a      *)
(* value, a definition without threshold, an unknown metric, a pool that   *)
(* names a signal with no enabled definition.  At the ttl the cache goes   *)
(* from one store content to another, so that pairs with state are         *)
(* skipped too.  The history is kept.                                      *)
(***************************************************************************)
SkipSymbols == {"BTC"}
SkipUpdates == [openInterest : {PyNone, Num(3)}, funding : {PyNone}]
SkipConfigs == {"wide", "nothreshold", "partial"}

InitSkip == Constructed /\ store \in SkipConfigs /\ history = Tracked /\ fn = NoCall

NextSkip ==
  \/ \E symbol \in SkipSymbols, market_data \in SkipUpdates :
       Call(MainThread, symbol, market_data)
  \/ Refresh(MainThread)
  \/ Detect(MainThread)
  \/ Idle /\ Tick(CacheTTL)
  \/ \E c \in SkipConfigs : Idle /\ ConfigChange(c)

SpecSkip == InitSkip /\ [][NextSkip]_vars

(***************************************************************************)
(* SpecPools: a sequential run over two symbols and stores whose pools     *)
(* overlap: a signal in two pools of one symbol, a signal in a pool of the *)
(* other symbol only, a symbol no pool monitors.  The history is kept.     *)
(***************************************************************************)
PoolSymbols == {"BTC", "ETH"}
PoolUpdates == [openInterest : {Num(1), Num(3)}, funding : {PyNone}]
PoolConfigs == {"base", "wide"}

InitPools == Constructed /\ store \in PoolConfigs /\ history = Tracked /\ fn = NoCall

NextPools ==
  \/ \E symbol \in PoolSymbols, market_data \in PoolUpdates :
       Call(MainThread, symbol, market_data)
  \/ Refresh(MainThread)
  \/ Detect(MainThread)
  \/ Idle /\ Tick(CacheTTL)
  \/ \E c \in PoolConfigs : Idle /\ ConfigChange(c)

SpecPools == InitPools /\ [][NextPools]_vars

(***************************************************************************)
(* SpecConfig: a sequential run in which the configuration of an active    *)
(* pair changes from one cache generation to the next: its pool is removed *)
(* ("empty"), its definition is disabled ("paused"), its threshold and     *)
(* operator change ("loose"), and it comes back ("base").  The clock       *)
(* advances by the ttl several times; there is no reset.  The history is   *)
(* kept.                                                                   *)
(***************************************************************************)
ConfigSymbols == {"BTC"}
ConfigUpdates == [openInterest : {Num(1), Num(3)}, funding : {PyNone}]
Configs == {"base", "loose", "paused", "empty"}

InitConfig == Constructed /\ store = "base" /\ history = Tracked /\ fn = NoCall

NextConfig ==
  \/ \E symbol \in ConfigSymbols, market_data \in ConfigUpdates :
       Call(MainThread, symbol, market_data)
  \/ Refresh(MainThread)
  \/ Detect(MainThread)
  \/ Idle /\ Advance(CacheTTL, MaxCacheTicks)
  \/ \E c \in Configs : Idle /\ ConfigChange(c)

SpecConfig == InitConfig /\ [][NextConfig]_vars

(***************************************************************************)
(* SpecSink: a sequential run in which the trigger sink may fail at every  *)
(* record.  Two signals on one symbol; between calls reset_state is        *)
(* called, the clock advances by the ttl and the store changes.  The       *)
(* history is kept.                                                        *)
(***************************************************************************)
SinkSymbols == {"BTC"}
SinkUpdates == [openInterest : {Num(1), Num(3)}, funding : {PyNone}]
SinkConfigs == {"base", "wide"}

InitSink == Constructed /\ store \in SinkConfigs /\ history = Tracked /\ fn = NoCall

NextSink ==
  \/ \E symbol \in SinkSymbols, market_data \in SinkUpdates :
       Call(MainThread, symbol, market_data)
  \/ Refresh(MainThread)
  \/ Detect(MainThread)
  \/ LogTriggerFail(MainThread)
  \/ \E signal_id \in ResetArgs(SignalIds), symbol \in ResetArgs(SinkSymbols) :
       Idle /\ ResetState(signal_id, symbol)
  \/ Idle /\ Tick(CacheTTL)
  \/ \E c \in SinkConfigs : Idle /\ ConfigChange(c)

SpecSink == InitSink /\ [][NextSink]_vars

(***************************************************************************)
(* The pure helpers, each called on its own with arguments from a bounded  *)
(* set: fn holds the arguments and, once the call has returned, the        *)
(* result.  The engine itself stays as constructed.                        *)
(***************************************************************************)
engineVars == <<signal_states, cacheVars, store, clock, ticks, pc, frame, orphan, obs,
                histVars>>

InitEngine == Constructed /\ store = "empty" /\ history = Untracked

\* _time_window_to_period(time_window)
WindowInputs ==
  {Seconds(n) : n \in (-1)..MaxWindow}
    \cup {Label(s) : s \in {"1m", "3m", "5m", "15m", "30m", "1h", "2h", "4h", "1d"}}

InitPeriod ==
  /\ InitEngine
  /\ fn \in {[name |-> "time_window_to_period", time_window |-> w, returned |-> FALSE,
              period |-> ""] : w \in WindowInputs}

TimeWindowToPeriod ==
  /\ fn.name = "time_window_to_period"
  /\ ~fn.returned
  /\ fn' = [fn EXCEPT !.returned = TRUE, !.period = time_window_to_period(fn.time_window)]
  /\ UNCHANGED engineVars

SpecPeriod == InitPeriod /\ [][TimeWindowToPeriod]_vars

\* _evaluate_condition(value, operator, threshold): the result is "true", "false"
\* or "raised".
OperatorInputs == KnownOperators \cup {"=", "gt", "abs_gte"}
ThresholdInputs == {Num(n) : n \in (-MaxValue)..MaxValue} \cup {PyStr}

InitEvaluate ==
  /\ InitEngine
  /\ fn \in {[name |-> "evaluate_condition", value |-> v, operator |-> o, threshold |-> th,
              returned |-> FALSE, result |-> ""] :
                v \in (-MaxValue)..MaxValue, o \in OperatorInputs, th \in ThresholdInputs}

EvaluateCondition ==
  /\ fn.name = "evaluate_condition"
  /\ ~fn.returned
  /\ fn' = [fn EXCEPT !.returned = TRUE,
                      !.result = IF evaluate_raises(fn.operator, fn.threshold) THEN "raised"
                                 ELSE IF evaluate_condition(fn.value, fn.operator,
                                                            fn.threshold.v)
                                 THEN "true" ELSE "false"]
  /\ UNCHANGED engineVars

SpecEvaluate == InitEvaluate /\ [][EvaluateCondition]_vars

\* _get_metric_value(metric, symbol, market_data, time_window), with resp the
\* answer of the indicator store if it is asked.
PayloadValues == {PyNone, PyStr, Num(-1), Num(0), Num(2), NumStr(0), NumStr(2)}
MetricInputs == {"oi", "funding_rate", "cvd", "volume"}

InitMetric ==
  /\ InitEngine
  /\ fn \in {[name |-> "get_metric_value", metric |-> m, market_data |-> md, resp |-> r,
              returned |-> FALSE, value |-> PyNone] :
                m \in MetricInputs,
                md \in [openInterest : PayloadValues, funding : PayloadValues],
                r \in IndicatorResponses}

GetMetricValue ==
  /\ fn.name = "get_metric_value"
  /\ ~fn.returned
  /\ fn' = [fn EXCEPT !.returned = TRUE,
                      !.value = get_metric_value(fn.metric, fn.market_data,
                                                 DefaultTimeWindow, fn.resp)]
  /\ UNCHANGED engineVars

SpecMetric == InitMetric /\ [][GetMetricValue]_vars

(***************************************************************************)
(* Properties.                                                             *)
(***************************************************************************)
\* The signal ids of the TriggerRecords in a caller's result list.
ResultIds(t) ==
  {frame[t].triggered_signals[i].signal_id : i \in 1..Len(frame[t].triggered_signals)}

ResultRecords(t) ==
  {frame[t].triggered_signals[i] : i \in 1..Len(frame[t].triggered_signals)}

\* How many records of the result list are for signal id.
CountFor(t, id) ==
  Cardinality({i \in 1..Len(frame[t].triggered_signals) :
                 frame[t].triggered_signals[i].signal_id = id})

Finished(t) == pc[t] = "done"

\* C1: in a sequential run, for every evaluation of a (signal, symbol) pair, a
\* TriggerRecord for the pair is in the returned list if and only if the pair's
\* stored isActive was false (or the pair had no state) before the evaluation and
\* the condition was met in it; no record is returned without such an evaluation.
C1_TriggerIffInactiveAndMet ==
  \A t \in Threads :
    Finished(t) =>
      /\ \A e \in obs[t].evals :
           (e.signal_id \in ResultIds(t)) <=> (~e.prior /\ e.met)
      /\ \A id \in ResultIds(t) : \E e \in obs[t].evals : e.signal_id = id

\* C1 witness: one call returned a record for a pair that was inactive and met its
\* condition, and none for a pair that met its condition while already active.
C1_Witness ==
  \E t \in Threads :
    /\ Finished(t)
    /\ \E e \in obs[t].evals : ~e.prior /\ e.met /\ e.signal_id \in ResultIds(t)
    /\ \E e \in obs[t].evals : e.prior /\ e.met /\ e.signal_id \notin ResultIds(t)

\* C2: edge-triggering law.  For a pair with no reset in between, an evaluation
\* whose condition is true right after an evaluation whose condition was true
\* returns no record for the pair.
C2_NoRepeatWhileTrue ==
  \A t \in Threads :
    Finished(t) =>
      \A e \in obs[t].evals : (e.prev /\ e.met) => e.signal_id \notin ResultIds(t)

\* C2 witness: a call ended in which a pair's condition was true for the second
\* evaluation in a row, and the pair has emitted one record in all.
C2_Witness ==
  \E t \in Threads :
    /\ Finished(t)
    /\ \E e \in obs[t].evals :
         /\ e.prev /\ e.met
         /\ emitted[<<e.signal_id, frame[t].symbol>>] = 1
         /\ edges[<<e.signal_id, frame[t].symbol>>] = 1

\* C3: re-arm law.  An evaluation whose condition is true after a false one (or
\* as the pair's first since a reset) returns exactly one record for the pair,
\* and between calls the records emitted for a pair number its rising edges.
C3_OneRecordPerRisingEdge ==
  /\ \A t \in Threads :
       Finished(t) =>
         \A e \in obs[t].evals : (~e.prev /\ e.met) => CountFor(t, e.signal_id) = 1
  /\ (\A t \in Threads : pc[t] \in {"idle", "done"}) =>
       \A k \in Keys : emitted[k] = edges[k]

\* C3 witness: a pair that fired, dropped to false and became true again has just
\* returned its second record.
C3_Witness ==
  \E t \in Threads :
    /\ Finished(t)
    /\ \E e \in obs[t].evals :
         /\ ~e.prev /\ e.met
         /\ e.signal_id \in ResultIds(t)
         /\ edges[<<e.signal_id, frame[t].symbol>>] = 2
         /\ emitted[<<e.signal_id, frame[t].symbol>>] = 2

\* A definition whose evaluation cannot raise: a dict condition with its three
\* required fields and a numeric threshold.
WellFormed(def) ==
  /\ def.enabled
  /\ def.trigger_condition.isdict
  /\ ~fields_missing(def.trigger_condition)
  /\ def.trigger_condition.threshold.k = "num"

\* C4: under concurrent detect_signals calls, two evaluations of the same
\* inactive pair that both find the condition true never both decide to trigger:
\* the read of isActive and the write of isActive of one evaluation are not
\* interleaved with those of another.
C4_NoDoubleFire ==
  \A t1, t2 \in Threads :
    (t1 # t2 /\ state_key(t1) = state_key(t2)) =>
      ~(/\ pc[t1] = "st_write" /\ frame[t1].should_trigger
        /\ pc[t2] = "st_write" /\ frame[t2].should_trigger)

\* The update carries the value of the definition's metric (an indicator metric
\* is the indicator store's to answer).
Resolvable(def, market_data) ==
  LET value == get_metric_value(def.trigger_condition.metric, market_data,
                                def.trigger_condition.time_window, Num(1))
  IN value.k = "num"

\* C5: per-signal failure isolation.  When a detect_signals call ends, no
\* well-formed candidate signal of the call whose metric the update carries is
\* left unevaluated, whatever failure another candidate raised and whatever the
\* iteration order.
C5_FailureIsolation ==
  \A t \in Threads :
    Finished(t) =>
      \A id \in frame[t].signal_ids :
        ~(/\ id \in DOMAIN signals_cache
          /\ WellFormed(signals_cache[id])
          /\ Resolvable(signals_cache[id], frame[t].market_data))

\* C6: detect_signals never raises to its caller; whatever fails (configuration
\* store, indicator store, trigger sink, a malformed definition), the call ends
\* by returning the list of exactly the TriggerRecords produced before the failure.
C6_NeverRaises ==
  \A t \in Threads :
    Finished(t) =>
      /\ frame[t].outcome = "returned"
      /\ ResultRecords(t) = obs[t].produced
      /\ Len(frame[t].triggered_signals) = Cardinality(obs[t].produced)

\* C6 witness: a call whose cache refresh failed, whose trigger sink failed and
\* whose loop was aborted by an exception has returned the record it produced.
C6_Witness ==
  \E t \in Threads :
    /\ Finished(t)
    /\ obs[t].refresh = "failed"
    /\ obs[t].sink_failed
    /\ obs[t].abort # "none"
    /\ frame[t].outcome = "returned"
    /\ Len(frame[t].triggered_signals) = 1

\* C7: trigger persistence is best-effort.  A failure of the trigger sink never
\* aborts the call, and the record whose persistence failed is in the result
\* list the call returns.
C7_SinkFailureContained ==
  \A t \in Threads :
    obs[t].sink_failed =>
      /\ obs[t].abort # "sink"
      /\ Finished(t) => obs[t].produced \subseteq ResultRecords(t)

\* C7 witness: after the sink failed on one record of a call, the call went on,
\* evaluated the other candidate, and has returned both records.
C7_Witness ==
  \E t \in Threads :
    /\ Finished(t)
    /\ obs[t].sink_failed
    /\ obs[t].abort = "none"
    /\ Cardinality(obs[t].evals) = 2
    /\ Len(frame[t].triggered_signals) = 2

\* C8: after a failed cache refresh (the pools query or the definitions query
\* failed), the cached pools, the cached definitions and the last-refresh
\* timestamp are those from before the attempt.
C8_FailedRefreshKeepsSnapshot ==
  \A t \in Threads :
    obs[t].refresh = "failed" =>
      /\ signal_pools_cache = obs[t].pre_pools
      /\ signals_cache = obs[t].pre_signals
      /\ cache_time = obs[t].pre_time

\* The snapshots the configuration store can hand out (the empty one is also the
\* cache's content at construction).
IsSnapshot(pools, signals) ==
  \E c \in ConfigIds : pools = list_enabled_pools(c) /\ signals = list_enabled_signals(c)

\* C9: the pools and the signal definitions a detect_signals call reads from the
\* cache are of one generation: together they are one snapshot of the store.
C9_ConsistentGeneration ==
  \A t \in Threads :
    obs[t].read_defs => IsSnapshot(obs[t].pools_seen, obs[t].defs_seen)

\* C10: single-flight refresh.  At most one caller at a time is between the
\* expiry check and the end of its refresh.
C10_SingleFlight ==
  Cardinality({t \in Threads : pc[t] \in {"q_pools", "q_signals", "set_time"}}) <= 1

\* A detect_signals call that has made its cache access (the expiry check).
Accessed(t) == pc[t] \notin {"idle", "refresh"}

\* C11 (as claimed): cache freshness, for every sequence of accesses.  The first
\* access of a fresh engine fetches; of two consecutive accesses less than ttl
\* apart of which the first fetched, the second does not fetch (one fetch in all),
\* also when the first one's fetch failed; of two accesses ttl or more apart the
\* second fetches.
C11_CacheFreshness ==
  \A t \in Threads :
    Accessed(t) =>
      IF history.at = -1 THEN obs[t].refresh # "none"
      ELSE LET gap == frame[t].now - history.at
           IN /\ (gap < CacheTTL /\ history.refresh # "none") => obs[t].refresh = "none"
              /\ gap >= CacheTTL => obs[t].refresh # "none"

\* C11 (amended): the first access of a fresh engine fetches; of two consecutive
\* accesses less than ttl apart of which the first fetched successfully, the
\* second does not fetch; of two accesses ttl or more apart the second fetches;
\* and an access that follows a failed fetch fetches again, however short the gap.
C11_FetchUnlessFresh ==
  \A t \in Threads :
    Accessed(t) =>
      IF history.at = -1 THEN obs[t].refresh # "none"
      ELSE LET gap == frame[t].now - history.at
           IN /\ (gap < CacheTTL /\ history.refresh = "ok") => obs[t].refresh = "none"
              /\ gap >= CacheTTL => obs[t].refresh # "none"
              /\ history.refresh = "failed" => obs[t].refresh # "none"

\* C11 witness: an access less than ttl after an access whose fetch failed has
\* fetched again, successfully.
C11_Witness ==
  \E t \in Threads :
    /\ Accessed(t)
    /\ history.refresh = "failed"
    /\ frame[t].now - history.at \in 1..(CacheTTL - 1)
    /\ obs[t].refresh = "ok"

\* A call that is evaluating a signal definition it found in the cache.
Evaluating(t) == frame[t].signal_id # 0

\* C12 (as claimed): staleness bound.  Whenever a call evaluates a signal, the
\* cached pools and the cached definitions were fetched from the store no more
\* than cacheTTL before the call's access time.
C12_StalenessBound ==
  \A t \in Threads :
    Evaluating(t) =>
      /\ frame[t].now - history.pools_at <= CacheTTL
      /\ frame[t].now - history.defs_at <= CacheTTL

\* C12 (amended): the same bound, unless the refresh attempted at that access
\* failed; then the retained snapshot is served, however old it is.
C12_StalenessBoundUnlessFailed ==
  \A t \in Threads :
    (Evaluating(t) /\ obs[t].refresh # "failed") =>
      /\ history.pools_at >= 0
      /\ history.defs_at >= 0
      /\ frame[t].now - history.pools_at <= CacheTTL
      /\ frame[t].now - history.defs_at <= CacheTTL

\* C12 witness: a call evaluates a signal against a snapshot fetched ttl - 1
\* seconds before its access, without refreshing.
C12_Witness ==
  \E t \in Threads :
    /\ Evaluating(t)
    /\ obs[t].refresh = "none"
    /\ frame[t].now - history.defs_at = CacheTTL - 1
    /\ frame[t].now - history.pools_at = CacheTTL - 1

\* The entries a reset with these arguments is to remove ({} stands for an
\* argument not given).
Matching(signal_id, symbol) ==
  CASE signal_id = {} /\ symbol = {} -> Keys
    [] signal_id # {} /\ symbol = {} -> {k \in Keys : k[1] \in signal_id}
    [] signal_id = {} /\ symbol # {} -> {k \in Keys : k[2] \in symbol}
    [] OTHER -> signal_id \X symbol

\* C13: reset_state(signal_id, symbol) removes exactly the matching entries: all
\* with neither argument, the signal's with only signal_id, the symbol's with only
\* symbol, the pair's with both; every other entry keeps its is_active, last_value
\* and last_check_time, and the configuration cache and its timestamp are unchanged.
C13_ResetRemovesExactlyMatching ==
  [][\A signal_id \in ResetArgs(SignalIds), symbol \in ResetArgs(Symbols) :
       ResetState(signal_id, symbol) =>
         /\ DOMAIN signal_states' = DOMAIN signal_states \ Matching(signal_id, symbol)
         /\ \A k \in DOMAIN signal_states' : signal_states'[k] = signal_states[k]
         /\ UNCHANGED cacheVars]_vars

\* C13 witness: (1, BTC), which had fired, has been reset while (2, BTC) and
\* (1, ETH) are still there and active.
C13_Witness ==
  /\ edges[<<1, "BTC">>] >= 1
  /\ <<1, "BTC">> \notin DOMAIN signal_states
  /\ DOMAIN signal_states = {<<2, "BTC">>, <<1, "ETH">>}
  /\ \A k \in DOMAIN signal_states : signal_states[k].is_active
  /\ cache_time = CacheTTL

\* The supported periods, shortest first, and the inclusive upper bound in seconds
\* of each but the last.
Periods == <<"1m", "3m", "5m", "15m", "30m", "1h", "2h", "4h">>
UpperBound == <<60, 180, 300, 900, 1800, 3600, 7200>>

Rank(period) == CHOOSE i \in 1..Len(Periods) : Periods[i] = period

\* The smallest supported period whose upper bound is not below the duration.
Bucket(seconds) ==
  Periods[Min({i \in 1..Len(Periods) : i = Len(Periods) \/ seconds <= UpperBound[i]})]

\* C14: the period bucketer returns, for every integer duration, the smallest
\* supported period whose inclusive upper bound is not below it (4h above 7200),
\* returns a period label unchanged, and is monotone: one more second never
\* gives a shorter period.
C14_BucketIsSmallestCover ==
  (fn.name = "time_window_to_period" /\ fn.returned) =>
    IF fn.time_window.k = "str" THEN fn.period = fn.time_window.s
    ELSE /\ fn.period = Bucket(fn.time_window.v)
         /\ Rank(fn.period) <= Rank(time_window_to_period(Seconds(fn.time_window.v + 1)))

\* C14 witness: the call bucket(7201) has returned "4h".
C14_Witness ==
  /\ fn.name = "time_window_to_period"
  /\ fn.returned
  /\ fn.time_window = Seconds(7201)
  /\ fn.period = "4h"

\* C15: the operator evaluator on integers: the four comparisons are the usual
\* ones, "==" and "!=" are complementary, both spellings of the absolute
\* comparisons mean |value| > threshold and |value| < threshold, and any other
\* operator string gives false without raising (whatever the threshold).
C15_OperatorSemantics ==
  (fn.name = "evaluate_condition" /\ fn.returned) =>
    LET v == fn.value
        th == fn.threshold.v
        is(b) == fn.result = (IF b THEN "true" ELSE "false")
    IN IF fn.operator \notin KnownOperators THEN fn.result = "false"
       ELSE fn.threshold.k = "num" =>
              CASE fn.operator = ">" -> is(v > th)
                [] fn.operator = ">=" -> is(v >= th)
                [] fn.operator = "<" -> is(v < th)
                [] fn.operator = "<=" -> is(v <= th)
                [] fn.operator = "==" -> is(~evaluate_condition(v, "!=", th))
                [] fn.operator = "!=" -> is(~evaluate_condition(v, "==", th))
                [] fn.operator \in {"abs_greater_than", "abs_gt"} ->
                     is((v > th) \/ (-v > th))
                [] OTHER -> is((v < th) /\ (-v < th))

\* C15 witness: evaluate(-3, "abs_gt", 2) has returned true.
C15_Witness ==
  /\ fn.name = "evaluate_condition"
  /\ fn.returned
  /\ fn.value = -3 /\ fn.operator = "abs_gt" /\ fn.threshold = Num(2)
  /\ fn.result = "true"

\* The payload field of a directly embedded metric.
PayloadField(metric, market_data) ==
  IF metric = "oi" THEN market_data.openInterest ELSE market_data.funding

\* C16: for the metrics "oi" and "funding_rate" the metric resolver returns the
\* number in the payload field whenever the field is present and parseable as a
\* number, whatever the number, and returns absent (never raises) exactly when
\* the field is absent or unparseable.
C16_EmbeddedMetricIsFieldValue ==
  (fn.name = "get_metric_value" /\ fn.returned /\ fn.metric \in {"oi", "funding_rate"}) =>
    LET field == PayloadField(fn.metric, fn.market_data)
    IN IF field.k \in {"num", "numstr"} THEN fn.value = Num(field.v)
       ELSE fn.value = PyNone

\* A caller that is not between the operator evaluation and the state update of
\* a pair.
Settled(t) == pc[t] \notin {"st_check", "st_create", "st_fetch", "st_read", "st_write"}

\* C17: in a sequential run, once an evaluation of a pair has computed
\* condition_met and updated the state, the stored is_active is that
\* condition_met and last_value is the metric value of that evaluation, whether
\* or not it triggered; and every pair's is_active is the outcome of its latest
\* completed evaluation since the last reset (false when there is none).
C17_StateFollowsEvaluation ==
  (\A t \in Threads : Settled(t)) =>
    /\ \A t \in Threads : \A e \in obs[t].evals :
         LET k == <<e.signal_id, frame[t].symbol>>
         IN /\ k \in DOMAIN signal_states
            /\ signal_states[k].is_active = e.met
            /\ signal_states[k].last_value = Num(e.value)
    /\ \A k \in Keys : is_active_of(k) = prev_cond[k]

\* C17 witness: a call has evaluated an active pair whose condition is no longer
\* met: no record, and the stored state is inactive with the new value.
C17_Witness ==
  \E t \in Threads :
    /\ Finished(t)
    /\ \E e \in obs[t].evals :
         /\ e.prior /\ ~e.met
         /\ e.signal_id \notin ResultIds(t)
         /\ signal_states[<<e.signal_id, frame[t].symbol>>] =
              [is_active |-> FALSE, last_value |-> Num(e.value), last_check_time |-> clock]

\* The candidate signal id of call t is to be skipped: its definition is not in
\* the cache or is disabled, or its condition lacks metric, operator or
\* threshold, or its metric has no value (the payload lacks the field, the
\* indicator store had none or failed, or the metric is not recognized).
ToSkip(t, id) ==
  \/ id \notin DOMAIN signals_cache
  \/ ~signals_cache[id].enabled
  \/ LET condition == signals_cache[id].trigger_condition
     IN /\ condition.isdict
        /\ \/ condition.metric = ""
           \/ condition.operator = ""
           \/ condition.threshold = PyNone
           \/ condition.metric = "oi" /\ frame[t].market_data.openInterest = PyNone
           \/ condition.metric = "funding_rate" /\ frame[t].market_data.funding = PyNone
           \/ condition.metric \in IndicatorMetrics /\ id \in obs[t].misses
           \/ condition.metric \notin IndicatorMetrics \cup {"oi", "funding_rate"}

\* The pair's entry is as it was when the current call began.
AsBefore(k) ==
  /\ k \in DOMAIN signal_states <=> k \in DOMAIN history.pre_states
  /\ k \in DOMAIN signal_states => signal_states[k] = history.pre_states[k]

\* C18: a skipped signal leaves the state store unchanged.  When a call ends, for
\* every candidate signal that was to be skipped the result list holds no record,
\* no entry was created for the pair, and an entry it had has the is_active,
\* last_value and last_check_time it had when the call began.
C18_SkipLeavesStateUnchanged ==
  \A t \in Threads :
    Finished(t) =>
      \A id \in obs[t].candidates :
        ToSkip(t, id) => (id \notin ResultIds(t) /\ AsBefore(<<id, frame[t].symbol>>))

\* C18 witness: a call has skipped signal 1, whose definition had lost its
\* threshold and whose pair was active from an earlier time, and has returned a
\* record for signal 2.
C18_Witness ==
  \E t \in Threads :
    /\ Finished(t)
    /\ obs[t].candidates = {1, 2}
    /\ ToSkip(t, 1)
    /\ signals_cache[1].trigger_condition.threshold = PyNone
    /\ <<1, frame[t].symbol>> \in DOMAIN signal_states
    /\ signal_states[<<1, frame[t].symbol>>].is_active
    /\ signal_states[<<1, frame[t].symbol>>].last_check_time < clock
    /\ ResultIds(t) = {2}

\* The pools, among those call t read from the cache, that are enabled and
\* monitor the call's symbol.
Monitoring(t) == {p \in obs[t].pools_seen : p.enabled /\ frame[t].symbol \in p.symbols}

\* C19: in one call the signals taken up are exactly the union of the signal ids
\* of the cached enabled pools that monitor the symbol: no other signal is
\* evaluated, a signal in several such pools is evaluated once and has at most
\* one record in the result, and when no pool monitors the symbol the call
\* returns the empty list and leaves signal_states as it was.
C19_CandidatesAreUnionOfMonitoringPools ==
  \A t \in Threads :
    LET ids == UNION {p.signal_ids : p \in Monitoring(t)}
    IN /\ obs[t].candidates = ids
       /\ \A e \in obs[t].evals : e.signal_id \in ids
       /\ \A id \in SignalIds :
            /\ Cardinality({e \in obs[t].evals : e.signal_id = id}) <= 1
            /\ CountFor(t, id) <= 1
       /\ (Finished(t) /\ Monitoring(t) = {}) =>
            (frame[t].triggered_signals = <<>> /\ signal_states = history.pre_states)

\* C19 witness: a call for ETH, which only the second of the two cached pools
\* monitors, has evaluated signal 1 and returned its record; signal 2, which is
\* in the BTC-only pool, was not taken up although its BTC pair is active.
C19_Witness ==
  \E t \in Threads :
    /\ Finished(t)
    /\ frame[t].symbol = "ETH"
    /\ Cardinality(obs[t].pools_seen) = 2
    /\ Cardinality(Monitoring(t)) = 1
    /\ {e.signal_id : e \in obs[t].evals} = {1}
    /\ ResultIds(t) = {1}
    /\ <<2, "BTC">> \in DOMAIN signal_states
    /\ <<2, "ETH">> \notin DOMAIN signal_states

\* C20: a successful refresh that fetched no pools and no definitions replaces
\* the snapshot by the empty one and sets the timestamp to its access time; from
\* then until ttl has elapsed no access fetches, and every call, whatever its
\* symbol, returns the empty list (and touches no edge state).
C20_EmptyRefreshCounts ==
  \A t \in Threads :
    (Accessed(t) /\ history.empty_at >= 0 /\ frame[t].now - history.empty_at < CacheTTL) =>
      /\ \/ obs[t].refresh = "none"
         \/ obs[t].refresh = "ok" /\ frame[t].now = history.empty_at
      /\ signal_pools_cache = {}
      /\ signals_cache = <<>>
      /\ cache_time = history.empty_at
      /\ Finished(t) =>
           (frame[t].triggered_signals = <<>> /\ signal_states = history.pre_states)

\* C20 witness: the cache held pools (a pair has state), a refresh then fetched
\* nothing, and ttl - 1 seconds later, with pools in the store again, a call
\* has returned the empty list without fetching.
C20_Witness ==
  \E t \in Threads :
    /\ Finished(t)
    /\ signal_states # <<>>
    /\ history.empty_at >= 0
    /\ frame[t].now - history.empty_at = CacheTTL - 1
    /\ store = "base"
    /\ obs[t].refresh = "none"
    /\ frame[t].triggered_signals = <<>>

\* C21: edge state survives configuration refreshes.  A pair that was active when
\* a call passed it over, because a refresh had removed or disabled its pool or
\* its definition, keeps its entry with is_active true and untouched for as long
\* as it is not evaluated; and when a call evaluates to true a pair carried over
\* from such a gap, or an active pair whose threshold or operator has changed,
\* the call returns no record for it and the pair stays active.
C21_StateSurvivesRefresh ==
  /\ \A k \in history.passed : k \in DOMAIN signal_states /\ signal_states[k].is_active
  /\ \A t \in Threads :
       Finished(t) =>
         /\ \A k \in history.passed :
              k[2] = frame[t].symbol =>
                (AsBefore(k) /\ \A e \in obs[t].evals : e.signal_id # k[1])
         /\ \A id \in history.carried :
              /\ id \notin ResultIds(t)
              /\ is_active_of(<<id, frame[t].symbol>>)

\* C21 witness: signal 1 fired on BTC under "oi > 2"; a later refresh found it
\* disabled and a call passed it over; a third refresh found it enabled again,
\* and the call that evaluated it to true has returned signal 2's record only.
C21_Witness ==
  \E t \in Threads :
    /\ Finished(t)
    /\ history.carried = {1}
    /\ emitted[<<1, "BTC">>] = 1
    /\ edges[<<1, "BTC">>] = 1
    /\ history.cond_at[<<1, "BTC">>] = OiAbove2
    /\ cache_time = 3 * CacheTTL
    /\ <<2, "BTC">> \in DOMAIN signal_states

\* C22: the edge state is written before the record is handed to the trigger
\* sink and is not taken back when the sink fails.  Whenever a record is about
\* to be handed to the sink its pair is already recorded as active, its
\* previous record was not one the sink failed on with the condition true ever
\* since, and the pair has had more rising edges than sink calls; a pair whose
\* record the sink failed to store stays active until its condition is false or
\* its state is reset; a call that evaluates such a pair to true again returns
\* no record for it; and the sink is called at most once per rising edge.
C22_NoRetryAfterSinkFailure ==
  /\ \A t \in Threads :
       pc[t] = "log" =>
         /\ is_active_of(state_key(t))
         /\ state_key(t) \notin history.unsaved
         /\ history.handed[state_key(t)] < edges[state_key(t)]
  /\ \A k \in history.unsaved : is_active_of(k)
  /\ \A k \in Keys : history.handed[k] <= edges[k]
  /\ \A t \in Threads :
       Finished(t) =>
         \A e \in obs[t].evals :
           (e.prev /\ e.met /\ <<e.signal_id, frame[t].symbol>> \in history.unsaved) =>
             e.signal_id \notin ResultIds(t)

\* C22 witness: the sink failed on signal 1's record in an earlier call; a later
\* call, in which the sink failed again on signal 2's record, has evaluated
\* signal 1 to true once more and returned signal 2's record only, and the sink
\* has been called once for each pair.
C22_Witness ==
  \E t \in Threads :
    /\ Finished(t)
    /\ history.unsaved = {<<1, "BTC">>, <<2, "BTC">>}
    /\ obs[t].sink_failed
    /\ \E e \in obs[t].evals : e.signal_id = 1 /\ e.prev /\ e.met
    /\ ResultIds(t) = {2}
    /\ history.handed[<<1, "BTC">>] = 1
    /\ history.handed[<<2, "BTC">>] = 1
    /\ edges[<<1, "BTC">>] = 1

====
